---- MODULE Spec2Model ----
(***************************************************************************)
(* Model of shostspec (src/main.rs): expansion of host-list expressions    *)
(* such as host[1-10,20] into host names.                                  *)
(*                                                                         *)
(* A Rust string is a sequence of one-character strings.  u64 is scaled:   *)
(* U64Max stands for u64::MAX, every comparison against the top of the     *)
(* integer type is made against U64Max.                                    *)
(***************************************************************************)
EXTENDS Integers, Sequences, FiniteSets, TLC

VARIABLES items, n, m, specs, cur, stdout, outSrc, stderr, pc, pulls

vars == <<items, n, m, specs, cur, stdout, outSrc, stderr, pc, pulls>>

(* ---------------------------- bounds ----------------------------------- *)
U64Max == 15        \* stand-in for u64::MAX (2^64-1)
MaxItems == 3       \* longest argument list of the pipeline runs
MaxLen == 5         \* longest generated expression or range list
MaxPulls == 3       \* pulls made on an Expander after it signalled the end

(* ---------------------------- characters ------------------------------- *)
AsciiDigits == {"0", "1", "2", "3", "4", "5", "6", "7", "8", "9"}

is_ascii_digit(c) == c \in AsciiDigits

to_digit(c) ==
  CASE c = "0" -> 0 [] c = "1" -> 1 [] c = "2" -> 2 [] c = "3" -> 3
    [] c = "4" -> 4 [] c = "5" -> 5 [] c = "6" -> 6 [] c = "7" -> 7
    [] c = "8" -> 8 [] c = "9" -> 9

DigitChar(d) ==
  CASE d = 0 -> "0" [] d = 1 -> "1" [] d = 2 -> "2" [] d = 3 -> "3"
    [] d = 4 -> "4" [] d = 5 -> "5" [] d = 6 -> "6" [] d = 7 -> "7"
    [] d = 8 -> "8" [] d = 9 -> "9"

(* format!("{}", n) of an unsigned integer: decimal, no leading zeros *)
RECURSIVE fmt_u64(_)
fmt_u64(v) ==
  IF v < 10 THEN <<DigitChar(v)>>
  ELSE Append(fmt_u64(v \div 10), DigitChar(v % 10))

(* ---------------------------- str helpers ------------------------------ *)
(* index of the first occurrence of d in s, 0 when there is none *)
RECURSIVE find(_, _, _)
find(s, d, i) ==
  IF i > Len(s) THEN 0
  ELSE IF s[i] = d THEN i
  ELSE find(s, d, i + 1)

(* str::split_once *)
split_once(s, d) ==
  LET i == find(s, d, 1) IN
  IF i = 0 THEN [some |-> FALSE, fst |-> <<>>, snd |-> <<>>]
  ELSE [some |-> TRUE, fst |-> SubSeq(s, 1, i - 1), snd |-> SubSeq(s, i + 1, Len(s))]

(* str::split: the pieces between the separators, one piece for "" *)
RECURSIVE split(_, _)
split(s, d) ==
  LET sp == split_once(s, d) IN
  IF sp.some THEN <<sp.fst>> \o split(sp.snd, d) ELSE <<s>>

(* str::trim_end_matches(is_ascii_digit) *)
RECURSIVE trim_end_digits(_)
trim_end_digits(s) ==
  IF s # <<>> /\ is_ascii_digit(s[Len(s)])
  THEN trim_end_digits(SubSeq(s, 1, Len(s) - 1))
  ELSE s

(* str::strip_prefix, for a prefix known to start s *)
strip_prefix(s, p) == SubSeq(s, Len(p) + 1, Len(s))

(* ---------------------------- u64 parsing ------------------------------ *)
IntOk(v) == [ok |-> TRUE, val |-> v, err |-> "none"]
IntErr(e) == [ok |-> FALSE, val |-> 0, err |-> e]

RECURSIVE parse_digits(_, _)
parse_digits(ds, acc) ==
  IF ds = <<>> THEN IntOk(acc)
  ELSE IF ~is_ascii_digit(Head(ds)) THEN IntErr("InvalidDigit")
  ELSE IF acc * 10 > U64Max THEN IntErr("PosOverflow")
  ELSE IF acc * 10 + to_digit(Head(ds)) > U64Max THEN IntErr("PosOverflow")
  ELSE parse_digits(Tail(ds), acc * 10 + to_digit(Head(ds)))

(* variant: digits only, a leading '+' is an invalid digit *)
parse_u64_unsigned_only(src) ==
  IF src = <<>> THEN IntErr("Empty")
  ELSE parse_digits(src, 0)

(* str::parse::<u64>: an optional '+', then digits *)
parse_u64(src) ==
  IF src = <<>> THEN IntErr("Empty")
  ELSE IF src = <<"+">> \/ src = <<"-">> THEN IntErr("InvalidDigit")
  ELSE IF Head(src) = "+" THEN parse_digits(Tail(src), 0)
  ELSE parse_digits(src, 0)

(* ---------------------------- ranges ----------------------------------- *)
RangeInclusive(lo, hi) == [start |-> lo, end |-> hi, exhausted |-> FALSE]

RangeOk(r) == [ok |-> TRUE, range |-> r, err |-> "none"]
RangeErr(e) == [ok |-> FALSE, range |-> RangeInclusive(0, 0), err |-> e]

(* variant: an inverted range is put in ascending order *)
transform_numeric_range_sorted(range_str) ==
  LET sp == split_once(range_str, "-") IN
  IF sp.some
  THEN LET start_n == parse_u64(sp.fst)
           end_n == parse_u64(sp.snd)
       IN IF ~start_n.ok THEN RangeErr(start_n.err)
          ELSE IF ~end_n.ok THEN RangeErr(end_n.err)
          ELSE IF start_n.val > end_n.val
               THEN RangeOk(RangeInclusive(end_n.val, start_n.val))
               ELSE RangeOk(RangeInclusive(start_n.val, end_n.val))
  ELSE LET single_int == parse_u64(range_str)
       IN IF ~single_int.ok THEN RangeErr(single_int.err)
          ELSE RangeOk(RangeInclusive(single_int.val, single_int.val))

transform_numeric_range(range_str) ==
  LET sp == split_once(range_str, "-") IN
  IF sp.some
  THEN LET start_n == parse_u64(sp.fst)
           end_n == parse_u64(sp.snd)
       IN IF ~start_n.ok THEN RangeErr(start_n.err)
          ELSE IF ~end_n.ok THEN RangeErr(end_n.err)
          ELSE RangeOk(RangeInclusive(start_n.val, end_n.val))
  ELSE LET single_int == parse_u64(range_str)
       IN IF ~single_int.ok THEN RangeErr(single_int.err)
          ELSE RangeOk(RangeInclusive(single_int.val, single_int.val))

(* variant: the upper bound is excluded (start..end) *)
RangeInclusive_next_exclusive(r) ==
  IF ~(r.start < r.end)
  THEN [some |-> FALSE, val |-> 0, self |-> r]
  ELSE [some |-> TRUE, val |-> r.start,
        self |-> [r EXCEPT !.start = (r.start + 1) % (U64Max + 1)]]

(* RangeInclusive<u64>::next *)
RangeInclusive_next(r) ==
  IF r.exhausted \/ ~(r.start <= r.end)
  THEN [some |-> FALSE, val |-> 0, self |-> r]
  ELSE IF r.start < r.end
       THEN [some |-> TRUE, val |-> r.start,
             self |-> [r EXCEPT !.start = (r.start + 1) % (U64Max + 1)]]
       ELSE [some |-> TRUE, val |-> r.start,
             self |-> [r EXCEPT !.exhausted = TRUE]]

(* ---------------------------- HostSpec --------------------------------- *)
HostSpec(p, r) == [prefix |-> p, numeric |-> r]

(* variant: a cursor that is advanced after every element, with no
   exhausted flag, so that it wraps after the largest integer *)
HostSpec_next_wrapping(h) ==
  LET r == h.numeric IN
  IF ~(r.start <= r.end)
  THEN [some |-> FALSE, item |-> <<>>, self |-> h]
  ELSE [some |-> TRUE, item |-> h.prefix \o fmt_u64(r.start),
        self |-> [h EXCEPT !.numeric.start = (r.start + 1) % (U64Max + 1)]]

HostSpec_next(h) ==
  LET nx == RangeInclusive_next(h.numeric) IN
  [some |-> nx.some,
   item |-> IF nx.some THEN h.prefix \o fmt_u64(nx.val) ELSE <<>>,
   self |-> [h EXCEPT !.numeric = nx.self]]

ParseOk(v) == [ok |-> TRUE, specs |-> v, kind |-> "none", reason |-> "none"]
ParseError(k, r) == [ok |-> FALSE, specs |-> <<>>, kind |-> k, reason |-> r]

RECURSIVE leading_non_digits(_)
leading_non_digits(s) ==
  IF s # <<>> /\ ~is_ascii_digit(Head(s))
  THEN <<Head(s)>> \o leading_non_digits(Tail(s))
  ELSE <<>>

(* variant: the prefix ends at the first digit of the expression *)
from_single_first_digit(host) ==
  LET prefix == leading_non_digits(host)
      numeric_part == strip_prefix(host, prefix)
      host_number == parse_u64(numeric_part)
  IN IF ~host_number.ok THEN ParseError("BadNumbers", host_number.err)
     ELSE ParseOk(<<HostSpec(prefix, RangeInclusive(host_number.val, host_number.val))>>)

from_single(host) ==
  LET prefix == trim_end_digits(host)
      numeric_part == strip_prefix(host, prefix)
      host_number == parse_u64(numeric_part)
  IN IF ~host_number.ok THEN ParseError("BadNumbers", host_number.err)
     ELSE ParseOk(<<HostSpec(prefix, RangeInclusive(host_number.val, host_number.val))>>)

(* variant: the range-specs are collected in reverse fragment order *)
RECURSIVE collect_reversed(_, _, _)
collect_reversed(frags, prefix, acc) ==
  IF frags = <<>> THEN ParseOk(acc)
  ELSE LET range == transform_numeric_range(Head(frags)) IN
       IF range.ok
       THEN collect_reversed(Tail(frags), prefix, <<HostSpec(prefix, range.range)>> \o acc)
       ELSE ParseError("BadNumbers", range.err)

(* variant: fragments that do not parse are dropped (filter_map) *)
RECURSIVE collect_skipping(_, _, _)
collect_skipping(frags, prefix, acc) ==
  IF frags = <<>> THEN ParseOk(acc)
  ELSE LET range == transform_numeric_range(Head(frags)) IN
       IF range.ok
       THEN collect_skipping(Tail(frags), prefix, Append(acc, HostSpec(prefix, range.range)))
       ELSE collect_skipping(Tail(frags), prefix, acc)

(* .map(transform_numeric_range).map(..).collect(): stops at the first Err *)
RECURSIVE collect(_, _, _)
collect(frags, prefix, acc) ==
  IF frags = <<>> THEN ParseOk(acc)
  ELSE LET range == transform_numeric_range(Head(frags)) IN
       IF range.ok
       THEN collect(Tail(frags), prefix, Append(acc, HostSpec(prefix, range.range)))
       ELSE ParseError("BadNumbers", range.err)

(* variant: the range list is parsed before the suffix is looked at *)
transform_single_hostspec_numbers_first(raw) ==
  LET a == split_once(raw, "[") IN
  IF a.some
  THEN LET b == split_once(a.snd, "]") IN
       IF b.some
       THEN LET c == collect(split(b.fst, ","), a.fst, <<>>) IN
            IF ~c.ok THEN c
            ELSE IF b.snd # <<>> THEN ParseError("ExtraStuff", "none")
            ELSE c
       ELSE ParseError("NoRange", "none")
  ELSE from_single(raw)

transform_single_hostspec(raw) ==
  LET a == split_once(raw, "[") IN
  IF a.some
  THEN LET b == split_once(a.snd, "]") IN
       IF b.some
       THEN IF b.snd # <<>> THEN ParseError("ExtraStuff", "none")
            ELSE collect(split(b.fst, ","), a.fst, <<>>)
       ELSE ParseError("NoRange", "none")
  ELSE from_single(raw)

NoResult == [arg |-> -1, res |-> ParseError("none", "none")]

(* ---------------------------- pipeline (main) -------------------------- *)
(* .filter(|(_, s)| !s.is_empty()) dropping the next argument *)
SkipEmpty ==
  /\ pc = "running" /\ cur = <<>> /\ specs = <<>>
  /\ n < Len(items)
  /\ items[n + 1] = <<>>
  /\ n' = n + 1
  /\ UNCHANGED <<items, m, specs, cur, stdout, outSrc, stderr, pc, pulls>>

(* variant: the arguments are enumerated after the empty ones are dropped *)
Decompose_renumbered ==
  /\ pc = "running" /\ cur = <<>> /\ specs = <<>>
  /\ n < Len(items)
  /\ items[n + 1] # <<>>
  /\ LET r == transform_single_hostspec(items[n + 1])
         k == Cardinality({i \in 1..n : items[i] # <<>>})
     IN
       /\ m' = [arg |-> n, res |-> r]
       /\ n' = n + 1
       /\ IF ~r.ok
          THEN /\ stderr' = Append(stderr, [pos |-> k, kind |-> r.kind, reason |-> r.reason])
               /\ pc' = "exit1"
               /\ UNCHANGED specs
          ELSE /\ specs' = [j \in 1..Len(r.specs) |-> [spec |-> r.specs[j], arg |-> n, frag |-> j]]
               /\ UNCHANGED <<stderr, pc>>
  /\ UNCHANGED <<items, cur, stdout, outSrc, pulls>>

(* .map(transform_single_hostspec) and the flat_map closure on one argument *)
Decompose ==
  /\ pc = "running" /\ cur = <<>> /\ specs = <<>>
  /\ n < Len(items)
  /\ items[n + 1] # <<>>
  /\ LET r == transform_single_hostspec(items[n + 1]) IN
       /\ m' = [arg |-> n, res |-> r]
       /\ n' = n + 1
       /\ IF ~r.ok
          THEN /\ stderr' = Append(stderr, [pos |-> n, kind |-> r.kind, reason |-> r.reason])
               /\ pc' = "exit1"
               /\ UNCHANGED specs
          ELSE /\ specs' = [k \in 1..Len(r.specs) |-> [spec |-> r.specs[k], arg |-> n, frag |-> k]]
               /\ UNCHANGED <<stderr, pc>>
  /\ UNCHANGED <<items, cur, stdout, outSrc, pulls>>

(* variant: the range-specs of an argument are taken from the back *)
PullSpec_reversed ==
  /\ pc = "running" /\ cur = <<>> /\ specs # <<>>
  /\ cur' = <<specs[Len(specs)]>>
  /\ specs' = SubSeq(specs, 1, Len(specs) - 1)
  /\ UNCHANGED <<items, n, m, stdout, outSrc, stderr, pc, pulls>>

(* first .flatten(): the next HostSpec of the current argument *)
PullSpec ==
  /\ pc = "running" /\ cur = <<>> /\ specs # <<>>
  /\ cur' = <<Head(specs)>>
  /\ specs' = Tail(specs)
  /\ UNCHANGED <<items, n, m, stdout, outSrc, stderr, pc, pulls>>

(* second .flatten() and for_each: pull the current HostSpec, print a host *)
PullHost ==
  /\ pc = "running" /\ cur # <<>>
  /\ LET nx == HostSpec_next(cur[1].spec) IN
       IF nx.some
       THEN /\ stdout' = Append(stdout, nx.item)
            /\ outSrc' = Append(outSrc, [arg |-> cur[1].arg, frag |-> cur[1].frag])
            /\ cur' = <<[cur[1] EXCEPT !.spec = nx.self]>>
       ELSE /\ cur' = <<>>
            /\ UNCHANGED <<stdout, outSrc>>
  /\ UNCHANGED <<items, n, m, specs, stderr, pc, pulls>>

(* the argument iterator is exhausted: main returns *)
Finish ==
  /\ pc = "running" /\ cur = <<>> /\ specs = <<>>
  /\ n = Len(items)
  /\ pc' = "done"
  /\ UNCHANGED <<items, n, m, specs, cur, stdout, outSrc, stderr, pulls>>

Next == SkipEmpty \/ Decompose \/ PullSpec \/ PullHost \/ Finish

(* ---------------------------- inputs ----------------------------------- *)
RECURSIVE SeqsUpTo(_, _)
SeqsUpTo(S, k) ==
  IF k = 0 THEN {<<>>}
  ELSE LET shorter == SeqsUpTo(S, k - 1) IN
       shorter \cup {Append(s, x) : s \in {t \in shorter : Len(t) = k - 1}, x \in S}

ExprPool ==
  { <<>>,
    <<"h", "[", "1", "]">>,
    <<"h", "7">>,
    <<"g", "[", "2", "-", "4", ",", "1", "]">>,
    <<"g", "[", "2", ",", "2", "]">>,
    <<"h", "[", "5", "-", "3", ",", "9", "]">>,
    <<"h", "[", "1", ",", "2", ",", "x", "]">>,
    <<"h", "[", "1", ",", ",", "x", "]">>,
    <<"b", "[", "1", "-">>,
    <<"b", "[", "1", "]", "f">>,
    <<"b">> }

InitCommon ==
  /\ n = 0
  /\ m = NoResult
  /\ specs = <<>>
  /\ cur = <<>>
  /\ stdout = <<>>
  /\ outSrc = <<>>
  /\ stderr = <<>>
  /\ pc = "running"
  /\ pulls = 0

Init ==
  /\ items \in SeqsUpTo(ExprPool, MaxItems)
  /\ InitCommon

(* ---------------------------- direct calls ------------------------------ *)
(* transform_single_hostspec called on one expression, as test_basics does *)
CallDecompose ==
  /\ pc = "running" /\ n = 0 /\ Len(items) = 1
  /\ LET r == transform_single_hostspec(items[1]) IN
       /\ m' = [arg |-> 0, res |-> r]
       /\ specs' = [k \in 1..Len(r.specs) |-> [spec |-> r.specs[k], arg |-> 0, frag |-> k]]
  /\ n' = 1
  /\ UNCHANGED <<items, cur, stdout, outSrc, stderr, pc, pulls>>

NextTok == CallDecompose \/ PullSpec \/ PullHost \/ Finish

(* HostSpec::next called on one range-spec, also after it returned None *)
ExpanderPull ==
  /\ pc = "expanding" /\ pulls < MaxPulls
  /\ LET nx == HostSpec_next(cur[1].spec) IN
       /\ cur' = <<[cur[1] EXCEPT !.spec = nx.self]>>
       /\ IF nx.some
          THEN /\ stdout' = Append(stdout, nx.item)
               /\ outSrc' = Append(outSrc, [arg |-> 0, frag |-> 1])
               /\ UNCHANGED pulls
          ELSE /\ pulls' = pulls + 1
               /\ UNCHANGED <<stdout, outSrc>>
  /\ UNCHANGED <<items, n, m, specs, stderr, pc>>

NextExp == ExpanderPull

TokAlphabet == {"h", "[", "]", ",", "-", "0", "1", "9"}

(* one expression, any text over TokAlphabet *)
InitTok ==
  /\ items \in {<<e>> : e \in SeqsUpTo(TokAlphabet, MaxLen)}
  /\ InitCommon

ListAlphabet == {"1", "9", "-", "+", ",", " ", "x"}

PrefixPool == {<<>>, <<"h">>}

(* one expression p[l], l any text over ListAlphabet *)
InitList ==
  /\ items \in {<<p \o <<"[">> \o l \o <<"]">> >> :
                  p \in PrefixPool, l \in SeqsUpTo(ListAlphabet, MaxLen)}
  /\ InitCommon

(* one range-spec (p, lo..=hi), any bounds of the integer type *)
InitExp ==
  /\ \E p \in PrefixPool, lo \in 0..U64Max, hi \in 0..U64Max :
       LET h == HostSpec(p, RangeInclusive(lo, hi)) IN
       /\ m = [arg |-> 0, res |-> ParseOk(<<h>>)]
       /\ cur = <<[spec |-> h, arg |-> 0, frag |-> 1]>>
  /\ items = <<>>
  /\ n = 0
  /\ specs = <<>>
  /\ stdout = <<>>
  /\ outSrc = <<>>
  /\ stderr = <<>>
  /\ pc = "expanding"
  /\ pulls = 0

Spec == Init /\ [][Next]_vars

SpecTok == InitTok /\ [][NextTok]_vars

SpecList == InitList /\ [][NextTok]_vars

SpecExp == InitExp /\ [][NextExp]_vars

(* ---------------------------- reference notions ------------------------ *)
(* The grammar and the expansions as the documentation states them, by     *)
(* position in the text rather than by the parser's steps.                 *)
Positions(s, c) == {i \in 1..Len(s) : s[i] = c}

FirstPos(s, c) ==
  IF Positions(s, c) = {} THEN 0
  ELSE CHOOSE i \in Positions(s, c) : \A j \in Positions(s, c) : i <= j

RECURSIVE DecimalValue(_)
DecimalValue(s) ==
  IF s = <<>> THEN 0
  ELSE DecimalValue(SubSeq(s, 1, Len(s) - 1)) * 10 + to_digit(s[Len(s)])

AllDigits(s) == \A i \in 1..Len(s) : s[i] \in AsciiDigits

(* a non-empty run of ASCII digits whose value fits the integer type *)
PlainNumber(s) == Len(s) >= 1 /\ AllDigits(s) /\ DecimalValue(s) <= U64Max

(* the same, optionally preceded by one '+' *)
SignedNumber(s) ==
  \/ PlainNumber(s)
  \/ Len(s) >= 2 /\ s[1] = "+" /\ PlainNumber(SubSeq(s, 2, Len(s)))

NumberValue(s) == IF s[1] = "+" THEN DecimalValue(SubSeq(s, 2, Len(s))) ELSE DecimalValue(s)

Before(s, i) == SubSeq(s, 1, i - 1)
After(s, i) == SubSeq(s, i + 1, Len(s))

(* a fragment is one number, or two numbers around a single '-' *)
PlainFragment(f) ==
  \/ PlainNumber(f)
  \/ \E i \in 1..Len(f) : f[i] = "-" /\ PlainNumber(Before(f, i)) /\ PlainNumber(After(f, i))

SignedFragment(f) ==
  \/ SignedNumber(f)
  \/ \E i \in 1..Len(f) : f[i] = "-" /\ SignedNumber(Before(f, i)) /\ SignedNumber(After(f, i))

FragmentLow(f) ==
  IF Positions(f, "-") = {} THEN NumberValue(f) ELSE NumberValue(Before(f, FirstPos(f, "-")))

FragmentHigh(f) ==
  IF Positions(f, "-") = {} THEN NumberValue(f) ELSE NumberValue(After(f, FirstPos(f, "-")))

(* p[...] with the first ']' after the first '[' as the last character *)
Bracketed(e) ==
  /\ Positions(e, "[") # {}
  /\ Positions(After(e, FirstPos(e, "[")), "]") # {}
  /\ FirstPos(After(e, FirstPos(e, "[")), "]") + FirstPos(e, "[") = Len(e)

BracketPrefix(e) == Before(e, FirstPos(e, "["))

RangeList(e) == SubSeq(e, FirstPos(e, "[") + 1, Len(e) - 1)

FragmentCount(e) == Cardinality(Positions(RangeList(e), ",")) + 1

(* position of the k-th comma of the range list; 0 and Len+1 at the ends *)
CommaAt(e, k) ==
  LET l == RangeList(e)
      cs == Positions(l, ",")
  IN IF k = 0 THEN 0
     ELSE IF k > Cardinality(cs) THEN Len(l) + 1
     ELSE CHOOSE i \in cs : Cardinality({j \in cs : j < i}) = k - 1

Fragment(e, k) == SubSeq(RangeList(e), CommaAt(e, k - 1) + 1, CommaAt(e, k) - 1)

(* first position of the maximal trailing run of digits, Len+1 if none *)
TrailingDigitsAt(e) ==
  CHOOSE i \in 1..(Len(e) + 1) :
    /\ \A j \in i..Len(e) : e[j] \in AsciiDigits
    /\ i > 1 => e[i - 1] \notin AsciiDigits

BarePrefix(e) == Before(e, TrailingDigitsAt(e))
BareNumber(e) == SubSeq(e, TrailingDigitsAt(e), Len(e))

RECURSIVE Flat(_)
Flat(ss) == IF ss = <<>> THEN <<>> ELSE Head(ss) \o Flat(Tail(ss))

Count(lo, hi) == IF hi >= lo THEN hi - lo + 1 ELSE 0

Interval(p, lo, hi) == [i \in 1..Count(lo, hi) |-> [prefix |-> p, val |-> lo + i - 1]]

(* the hosts a well-formed expression denotes, as (prefix, number) pairs *)
Denotes(e) ==
  IF e = <<>> THEN <<>>
  ELSE IF Positions(e, "[") # {}
  THEN Flat([k \in 1..FragmentCount(e) |->
              Interval(BracketPrefix(e), FragmentLow(Fragment(e, k)), FragmentHigh(Fragment(e, k)))])
  ELSE Interval(BarePrefix(e), DecimalValue(BareNumber(e)), DecimalValue(BareNumber(e)))

DenotesAll(es) == Flat([i \in 1..Len(es) |-> Denotes(es[i])])

(* text is prefix followed by the decimal form of v, without leading zeros *)
IsHostName(text, p, v) ==
  LET d == SubSeq(text, Len(p) + 1, Len(text)) IN
  /\ Len(text) > Len(p)
  /\ SubSeq(text, 1, Len(p)) = p
  /\ AllDigits(d)
  /\ DecimalValue(d) = v
  /\ Len(d) > 1 => d[1] # "0"

Matches(lines, hosts) ==
  /\ Len(lines) = Len(hosts)
  /\ \A j \in 1..Len(hosts) : IsHostName(lines[j], hosts[j].prefix, hosts[j].val)

Terminated == pc \in {"done", "exit1"}

(* ---------------------------- claims: pipeline ------------------------- *)
Fails(e) == e # <<>> /\ ~transform_single_hostspec(e).ok

FailingArgs == {i \in 1..Len(items) : Fails(items[i])}

FirstFailing == CHOOSE i \in FailingArgs : \A j \in FailingArgs : i <= j

(* C1: when some non-empty expression fails to decompose, exactly one
   failure is reported, for the leftmost failing expression, at its
   zero-based index among all supplied expressions (empty ones counted);
   the host names of all earlier expressions are on stdout when the failure
   is reported, and no host name of the failing or a later expression is
   ever emitted. *)
C1_FirstFailureReported ==
  FailingArgs # {} =>
    /\ pc # "done"
    /\ Len(stderr) <= 1
    /\ \A j \in 1..Len(outSrc) : outSrc[j].arg < FirstFailing - 1
    /\ Terminated =>
         /\ Len(stderr) = 1
         /\ stderr[1].pos = FirstFailing - 1
         /\ Matches(stdout, DenotesAll(SubSeq(items, 1, FirstFailing - 1)))

C1_Witness ==
  /\ pc = "exit1"
  /\ Len(stderr) = 1
  /\ stderr[1].pos = 2
  /\ items[2] = <<>>
  /\ stdout # <<>>

(* C2: when every non-empty expression decomposes, the output is exactly
   the concatenation, in input order, of each expression's expansions, each
   range-spec ascending and the range-specs in fragment order; empty
   expressions contribute nothing and are no error; nothing is
   deduplicated, sorted or reordered. *)
C2_OutputIsConcatenation ==
  (Terminated /\ FailingArgs = {}) =>
    /\ pc = "done"
    /\ stderr = <<>>
    /\ Matches(stdout, DenotesAll(items))

C2_Witness ==
  /\ pc = "done"
  /\ Len(items) = 3
  /\ items[1] = <<"g", "[", "2", "-", "4", ",", "1", "]">>
  /\ items[2] = <<>>
  /\ items[3] = <<"g", "[", "2", ",", "2", "]">>
  /\ Len(stdout) = 6

WellFormed(e) ==
  /\ Bracketed(e)
  /\ \A k \in 1..FragmentCount(e) : SignedFragment(Fragment(e, k))

Inverted(e, k) == FragmentLow(Fragment(e, k)) > FragmentHigh(Fragment(e, k))

Emitted(a, k) == {j \in 1..Len(outSrc) : outSrc[j].arg = a /\ outSrc[j].frag = k}

(* C8: an inverted fragment a-b (a > b) is no error and is not swapped:
   the expression decomposes, its range-spec carries [a, b] as written, it
   contributes no host name, and the other fragments of the expression (and
   the later expressions) are emitted in full. *)
C8_InvertedRangeIsEmpty ==
  \A a \in 0..(n - 1) :
    LET e == items[a + 1] IN
    WellFormed(e) =>
      /\ \A i \in 1..Len(stderr) : stderr[i].pos # a
      /\ m.arg = a =>
           /\ m.res.ok
           /\ Len(m.res.specs) = FragmentCount(e)
           /\ \A k \in 1..FragmentCount(e) :
                Inverted(e, k) =>
                  /\ m.res.specs[k].numeric.start = FragmentLow(Fragment(e, k))
                  /\ m.res.specs[k].numeric.end = FragmentHigh(Fragment(e, k))
      /\ \A k \in 1..FragmentCount(e) :
           /\ Inverted(e, k) => Emitted(a, k) = {}
           /\ pc = "done" =>
                Cardinality(Emitted(a, k)) =
                  Count(FragmentLow(Fragment(e, k)), FragmentHigh(Fragment(e, k)))

C8_Witness ==
  /\ pc = "done"
  /\ items = << <<"h", "[", "5", "-", "3", ",", "9", "]">>, <<"h", "7">> >>
  /\ m.arg = 1
  /\ stdout = << <<"h", "9">>, <<"h", "7">> >>

BadFragments(e) == {k \in 1..FragmentCount(e) : ~SignedFragment(Fragment(e, k))}

FirstBadFragment(e) == CHOOSE k \in BadFragments(e) : \A j \in BadFragments(e) : k <= j

(* C9: decomposition is all-or-nothing: when a fragment of a bracketed
   range list does not parse, the result is the error of the leftmost
   failing fragment and no range-spec, and the pipeline reports the failure
   without emitting any host name of that expression. *)
C9_AllOrNothing ==
  \A a \in 0..(n - 1) :
    LET e == items[a + 1] IN
    (Bracketed(e) /\ BadFragments(e) # {}) =>
      /\ Len(stderr) = 1
      /\ stderr[1].pos = a
      /\ stderr[1].kind = "BadNumbers"
      /\ stderr[1].reason = transform_numeric_range(Fragment(e, FirstBadFragment(e))).err
      /\ m.arg = a /\ ~m.res.ok /\ m.res.specs = <<>>
      /\ \A j \in 1..Len(outSrc) : outSrc[j].arg # a
      /\ pc = "exit1"

C9_Witness ==
  /\ pc = "exit1"
  /\ Len(items) >= 2
  /\ items[2] = <<"h", "[", "1", ",", ",", "x", "]">>
  /\ stderr = <<[pos |-> 1, kind |-> "BadNumbers", reason |-> "Empty"]>>
  /\ stdout = << <<"h", "1">> >>

(* ---------------------------- claims: decomposer ----------------------- *)
Decomposed == m.arg = 0 /\ Len(items) = 1

(* C3: for p[f1,...,fk] with nothing after the closing bracket and every
   fragment parsing, transform_single_hostspec returns exactly k
   range-specs, in fragment order, each with the text before the first '['
   as prefix and the interval of its fragment: [N,N] for N, [N,M] for N-M. *)
C3_OneSpecPerFragment ==
  (Decomposed /\ WellFormed(items[1])) =>
    LET e == items[1] IN
    /\ m.res.ok
    /\ Len(m.res.specs) = FragmentCount(e)
    /\ \A k \in 1..FragmentCount(e) :
         /\ m.res.specs[k].prefix = BracketPrefix(e)
         /\ m.res.specs[k].numeric =
              RangeInclusive(FragmentLow(Fragment(e, k)), FragmentHigh(Fragment(e, k)))

C3_Witness ==
  /\ Decomposed
  /\ items[1] = <<"h", "[", "1", "-", "9", ",", "1", "]">>
  /\ m.res.specs = <<HostSpec(<<"h">>, RangeInclusive(1, 9)), HostSpec(<<"h">>, RangeInclusive(1, 1))>>

(* C4 as stated: a fragment is accepted only if it is a non-empty run of
   ASCII digits of value at most u64::MAX, or two such runs around a single
   '-'; every other fragment, a signed one such as +5 included, fails with
   BadNumbers. *)
C4_DigitsOnly ==
  (Decomposed /\ Bracketed(items[1])) =>
    LET e == items[1] IN
    /\ m.res.ok <=> \A k \in 1..FragmentCount(e) : PlainFragment(Fragment(e, k))
    /\ ~m.res.ok => m.res.kind = "BadNumbers"

(* C4 amended: a fragment is accepted if and only if it is a number or two
   numbers around a single '-', where a number is a non-empty run of ASCII
   digits of value at most u64::MAX optionally preceded by one '+'; every
   other fragment (empty, empty side, second '-', any other character, a
   lone sign, overflow) fails with BadNumbers. *)
C4_OptionalPlusThenDigits ==
  (Decomposed /\ Bracketed(items[1])) =>
    LET e == items[1] IN
    /\ \A k \in 1..FragmentCount(e) :
         transform_numeric_range(Fragment(e, k)).ok <=> SignedFragment(Fragment(e, k))
    /\ m.res.ok <=> \A k \in 1..FragmentCount(e) : SignedFragment(Fragment(e, k))
    /\ ~m.res.ok => m.res.kind = "BadNumbers"

C4_Witness ==
  /\ Decomposed
  /\ items[1] = <<"h", "[", "+", "1", "-", "+", "9", "]">>
  /\ m.res.ok
  /\ m.res.specs[1].numeric = RangeInclusive(1, 9)

AfterOpen(e) == After(e, FirstPos(e, "["))

(* C5: for an expression containing '[', the result is NoRange iff no ']'
   follows the first '['; otherwise it is ExtraStuff iff a character follows
   the first ']' after the first '['; BadNumbers only when neither applies,
   whatever the range list contains. *)
C5_BracketStructureFirst ==
  (Decomposed /\ Positions(items[1], "[") # {}) =>
    LET rest == AfterOpen(items[1])
        unclosed == Positions(rest, "]") = {}
        trailing == ~unclosed /\ FirstPos(rest, "]") < Len(rest)
    IN
    /\ m.res.kind = "NoRange" <=> unclosed
    /\ m.res.kind = "ExtraStuff" <=> trailing
    /\ m.res.kind = "BadNumbers" => (~unclosed /\ ~trailing)
    /\ (unclosed \/ trailing) => ~m.res.ok

C5_Witness ==
  /\ Decomposed
  /\ items[1] = <<"h", "[", "h", "]", "h">>
  /\ m.res.kind = "ExtraStuff"

(* C6: for an expression without '[', the numeric part is the maximal
   trailing run of digits and the prefix everything before it; an empty or
   overflowing numeric part gives BadNumbers; otherwise the result is the
   single range-spec (prefix, [N,N]), which expands to the one string
   prefix followed by the decimal form of N. *)
C6_BareForm ==
  (Decomposed /\ Positions(items[1], "[") = {}) =>
    LET e == items[1]
        num == BareNumber(e)
    IN
    IF num = <<>> \/ DecimalValue(num) > U64Max
    THEN ~m.res.ok /\ m.res.kind = "BadNumbers" /\ stdout = <<>>
    ELSE /\ m.res.specs = <<HostSpec(BarePrefix(e),
                             RangeInclusive(DecimalValue(num), DecimalValue(num)))>>
         /\ pc = "done" =>
              /\ Len(stdout) = 1
              /\ IsHostName(stdout[1], BarePrefix(e), DecimalValue(num))

C6_Witness ==
  /\ pc = "done"
  /\ items[1] = <<"1", "]", "h", "0", "9">>
  /\ stdout = << <<"1", "]", "h", "9">> >>

(* ---------------------------- claims: expander ------------------------- *)
Given == m.res.specs[1]

Suffix(text, p) == SubSeq(text, Len(p) + 1, Len(text))

(* C7: pulling a range-spec (prefix, [low, high]) yields exactly
   prefix + decimal(i) for i = low, low+1, ..., high, ascending, once each,
   and then the end: max(0, high - low + 1) elements. *)
C7_AscendingInclusive ==
  pc = "expanding" =>
    /\ Len(stdout) <= Count(Given.numeric.start, Given.numeric.end)
    /\ \A j \in 1..Len(stdout) :
         IsHostName(stdout[j], Given.prefix, Given.numeric.start + j - 1)
    /\ pulls >= 1 => Len(stdout) = Count(Given.numeric.start, Given.numeric.end)

C7_Witness ==
  /\ pc = "expanding"
  /\ pulls = 1
  /\ Given = HostSpec(<<"h">>, RangeInclusive(9, 11))
  /\ stdout = << <<"h", "9">>, <<"h", "1", "0">>, <<"h", "1", "1">> >>

(* C10: with the high bound at the largest integer, the element for it is
   emitted exactly once, as the last one; every later pull signals the end,
   and no element for 0 or another value below low appears. *)
C10_NoWrapAtMax ==
  (pc = "expanding" /\ Given.numeric.end = U64Max) =>
    /\ \A j \in 1..Len(stdout) :
         /\ DecimalValue(Suffix(stdout[j], Given.prefix)) >= Given.numeric.start
         /\ DecimalValue(Suffix(stdout[j], Given.prefix)) <= U64Max
    /\ Cardinality({j \in 1..Len(stdout) :
                      DecimalValue(Suffix(stdout[j], Given.prefix)) = U64Max}) <= 1
    /\ pulls >= 1 =>
         /\ stdout # <<>>
         /\ DecimalValue(Suffix(stdout[Len(stdout)], Given.prefix)) = U64Max
         /\ Len(stdout) = U64Max - Given.numeric.start + 1

C10_Witness ==
  /\ pc = "expanding"
  /\ pulls = MaxPulls
  /\ Given.numeric.end = U64Max
  /\ Given.numeric.start = U64Max - 1
  /\ Len(stdout) = 2

====
